---------------------------- MODULE Spec2Model ----------------------------
(***************************************************************************)
(* Model of bevy_tween's span tween player (src/span_tween.rs).            *)
(*                                                                         *)
(* Durations are natural numbers of one time unit (one unit = 1 s in the   *)
(* scenarios of the documentation).  Option<T> is a sequence of length at  *)
(* most one: None is << >>, Some(v) is << v >>.  A component store is a    *)
(* function whose domain is the set of entities carrying the component.    *)
(***************************************************************************)
EXTENDS Integers, Sequences, FiniteSets, TLC

\* Largest instant of the modelled timelines (timer durations, span bounds).
MaxTime == 3

\* Largest frame delta handed to the system.
MaxDelta == 3

\* Largest count of a Repeat::Times configuration.
MaxTimes == 1

\* Largest instant of an elapsed sample handed to the resolver on its own.
MaxSample == 5

\* Timer duration of the forward, no-repeat playback scenario.
ForwardDuration == 5

None == << >>

Some(v) == << v >>

Min2(a, b) == IF a <= b THEN a ELSE b

Max2(a, b) == IF a >= b THEN a ELSE b

\* Duration::saturating_sub
saturating_sub(a, b) == IF a >= b THEN a - b ELSE 0

Forward == "Forward"

Backward == "Backward"

AnimationDirection == {Forward, Backward}

WrapAround == "WrapAround"

PingPong == "PingPong"

RepeatStyle == {WrapAround, PingPong}

Before == "Before"

Inside == "Inside"

After == "After"

\* The panic of the (false, false) arm of quotient.
Unreachable == "Unreachable"

DurationQuotient == {Before, Inside, After}

(***************************************************************************)
(* TimeBound and TweenTimeSpan                                             *)
(***************************************************************************)
Inclusive(d) == [tag |-> "Inclusive", d |-> d]

Exclusive(d) == [tag |-> "Exclusive", d |-> d]

TimeBound == {Inclusive(d) : d \in 0..MaxTime} \cup {Exclusive(d) : d \in 0..MaxTime}

duration(bound) == bound.d

new_unchecked(min, max) == [min |-> min, max |-> max]

\* TweenTimeSpan_new rejecting equal durations whatever the bounds' kinds.
TweenTimeSpan_new_any_equal(min, max) ==
    IF duration(min) = duration(max)
    THEN [ok |-> FALSE, err |-> "NotTime", min |-> min, max |-> max]
    ELSE IF duration(min) > duration(max)
    THEN [ok |-> FALSE, err |-> "MinGreaterThanMax", min |-> min, max |-> max]
    ELSE [ok |-> TRUE, span |-> new_unchecked(min, max)]

\* TweenTimeSpan_new without the check for two equal exclusive bounds.
TweenTimeSpan_new_without_not_time(min, max) ==
    IF duration(min) > duration(max)
    THEN [ok |-> FALSE, err |-> "MinGreaterThanMax", min |-> min, max |-> max]
    ELSE [ok |-> TRUE, span |-> new_unchecked(min, max)]

\* Result<TweenTimeSpan, NewTweenTimeSpanError>
TweenTimeSpan_new(min, max) ==
    IF min.tag = "Exclusive" /\ max.tag = "Exclusive" /\ duration(min) = duration(max)
    THEN [ok |-> FALSE, err |-> "NotTime", min |-> min, max |-> max]
    ELSE IF duration(min) > duration(max)
    THEN [ok |-> FALSE, err |-> "MinGreaterThanMax", min |-> min, max |-> max]
    ELSE [ok |-> TRUE, span |-> new_unchecked(min, max)]

\* quotient testing both bounds inclusively, whatever their kinds.
quotient_ignoring_kinds(span, d) ==
    LET after_min == d >= span.min.d
        before_max == d <= span.max.d
    IN  IF after_min /\ before_max THEN Inside
        ELSE IF after_min /\ ~before_max THEN After
        ELSE IF ~after_min /\ before_max THEN Before
        ELSE Unreachable

quotient(span, d) ==
    LET after_min == IF span.min.tag = "Inclusive" THEN d >= span.min.d ELSE d > span.min.d
        before_max == IF span.max.tag = "Inclusive" THEN d <= span.max.d ELSE d < span.max.d
    IN  IF after_min /\ before_max THEN Inside
        ELSE IF after_min /\ ~before_max THEN After
        ELSE IF ~after_min /\ before_max THEN Before
        ELSE Unreachable

\* Every span TweenTimeSpan::new accepts on the modelled timeline.
ValidSpans ==
    {TweenTimeSpan_new(min, max).span :
        <<min, max>> \in {p \in TimeBound \X TimeBound : TweenTimeSpan_new(p[1], p[2]).ok}}

\* TryFrom<ops::Range<Duration>>: a..b
from_range(a, b) == TweenTimeSpan_new(Inclusive(a), Exclusive(b))

\* TryFrom<ops::RangeInclusive<Duration>>: a..=b
from_range_inclusive(a, b) == TweenTimeSpan_new(Inclusive(a), Inclusive(b))

\* TryFrom<ops::RangeTo<Duration>>: ..b
from_range_to(b) == TweenTimeSpan_new(Inclusive(0), Exclusive(b))

\* from_range_to_inclusive with the end excluded.
from_range_to_inclusive_excluding_end(b) == TweenTimeSpan_new(Inclusive(0), Exclusive(b))

\* TryFrom<ops::RangeToInclusive<Duration>>: ..=b
from_range_to_inclusive(b) == TweenTimeSpan_new(Inclusive(0), Inclusive(b))

(***************************************************************************)
(* TweenTimer (crate::tween_timer): the timer the player ticks.            *)
(***************************************************************************)
Infinitely == [kind |-> "Infinitely", times |-> 0, times_repeated |-> 0]

Times(n) == [kind |-> "Times", times |-> n, times_repeated |-> 0]

\* Repeat::exhausted
exhausted(repeat) == repeat.kind = "Times" /\ repeat.times_repeated >= repeat.times

\* Repeat::try_advance_counter, the counter after a successful advance.
advance_counter(repeat) ==
    IF repeat.kind = "Times"
    THEN [repeat EXCEPT !.times_repeated = @ + 1]
    ELSE repeat

\* TweenTimer::default with the duration, direction and repeat of the bundle.
TweenTimer(dur, direction, repeat, repeat_style, speed_scale) ==
    [paused |-> FALSE,
     elasped |-> [now |-> 0, previous |-> 0, repeat_style |-> None],
     duration |-> dur,
     direction |-> direction,
     speed_scale |-> speed_scale,
     repeat |-> repeat,
     repeat_style |-> repeat_style]

\* TweenTimer::is_all_done: no more ticking will happen.
is_all_done(timer) ==
    /\ IF timer.direction = Forward
       THEN timer.elasped.now >= timer.duration
       ELSE timer.elasped.now = 0
    /\ (timer.repeat = None \/ exhausted(timer.repeat[1]))

\* TweenTimer::tick(delta, direction): the timer after the tick and the TickResult.
tick(timer, delta, direction) ==
    LET previous == timer.elasped.now
        dur == timer.duration
        new_now == IF direction = Forward THEN previous + delta ELSE previous - delta
        will_end == IF direction = Forward THEN new_now >= dur ELSE new_now <= 0
        can_repeat == timer.repeat # None /\ ~exhausted(timer.repeat[1])
        style == IF timer.repeat_style = None THEN WrapAround ELSE timer.repeat_style[1]
        wrapped == IF direction = Forward
                   THEN (new_now - dur) % dur
                   ELSE dur - ((0 - new_now) % dur)
        reflected == IF direction = Forward
                     THEN saturating_sub(dur, new_now - dur)
                     ELSE Min2(0 - new_now, dur)
        flipped == IF direction = Forward THEN Backward ELSE Forward
    IN  IF ~will_end
        THEN [timer |-> [timer EXCEPT !.elasped = [now |-> new_now,
                                                   previous |-> previous,
                                                   repeat_style |-> None]],
              result |-> "Continue"]
        ELSE IF can_repeat
        THEN [timer |-> [timer EXCEPT
                  !.elasped = [now |-> IF style = WrapAround THEN wrapped ELSE reflected,
                               previous |-> previous,
                               repeat_style |-> Some(style)],
                  !.direction = IF style = PingPong THEN flipped ELSE timer.direction,
                  !.repeat = Some(advance_counter(timer.repeat[1]))],
              result |-> "Repeated"]
        ELSE [timer |-> [timer EXCEPT
                  !.elasped = [now |-> IF direction = Forward THEN dur ELSE 0,
                               previous |-> previous,
                               repeat_style |-> None]],
              result |-> "AllDone"]

(***************************************************************************)
(* TweenState (crate::tween) and the resolver of span_tween_player_system  *)
(***************************************************************************)
\* TweenState::default
DefaultTweenState ==
    [local_elasped |-> None,
     local_previous_elasped |-> None,
     local_end |-> 0,
     direction |-> Forward]

\* match_no_repeat without the (Forward, Inside, After) arm.
match_no_repeat_without_leaving(m, t_elasped) ==
    IF m[2] = Inside /\ m[3] = Inside
    THEN Some(t_elasped)
    ELSE IF m \in {<<Forward, Before, Inside>>,
                   <<Forward, Before, After>>}
    THEN Some(t_elasped)
    ELSE IF m \in {<<Backward, After, Inside>>,
                   <<Backward, Inside, Before>>,
                   <<Backward, After, Before>>}
    THEN Some(t_elasped)
    ELSE None

\* match_no_repeat resolving every transition that touches the span, whatever
\* the direction.
match_no_repeat_any_direction(m, t_elasped) ==
    IF m[2] = Inside \/ m[3] = Inside
    THEN Some(t_elasped)
    ELSE IF m \in {<<Forward, Before, After>>, <<Backward, After, Before>>}
    THEN Some(t_elasped)
    ELSE None

\* match_no_repeat still resolving once the sample is past the span.
match_no_repeat_past_span(m, t_elasped) ==
    IF m[2] = Inside /\ m[3] = Inside
    THEN Some(t_elasped)
    ELSE IF m \in {<<Forward, Before, Inside>>,
                   <<Forward, Inside, After>>,
                   <<Forward, Before, After>>,
                   <<Forward, After, After>>}
    THEN Some(t_elasped)
    ELSE IF m \in {<<Backward, After, Inside>>,
                   <<Backward, Inside, Before>>,
                   <<Backward, After, Before>>,
                   <<Backward, Before, Before>>}
    THEN Some(t_elasped)
    ELSE None

\* match_no_repeat without the arms for a tick that steps over the span.
match_no_repeat_without_skipping(m, t_elasped) ==
    IF m[2] = Inside /\ m[3] = Inside
    THEN Some(t_elasped)
    ELSE IF m \in {<<Forward, Before, Inside>>,
                   <<Forward, Inside, After>>}
    THEN Some(t_elasped)
    ELSE IF m \in {<<Backward, After, Inside>>,
                   <<Backward, Inside, Before>>}
    THEN Some(t_elasped)
    ELSE None

\* Lines 515-526: the arms for a tick without repeat (repeat_style None).
match_no_repeat(m, t_elasped) ==
    IF m[2] = Inside /\ m[3] = Inside
    THEN Some(t_elasped)
    ELSE IF m \in {<<Forward, Before, Inside>>,
                   <<Forward, Inside, After>>,
                   <<Forward, Before, After>>}
    THEN Some(t_elasped)
    ELSE IF m \in {<<Backward, After, Inside>>,
                   <<Backward, Inside, Before>>,
                   <<Backward, After, Before>>}
    THEN Some(t_elasped)
    ELSE None

\* match_wrap_around reporting tween_elasped where Forward wrapped past the span.
match_wrap_around_forward_unclamped(m, t_elasped, t_min, t_max) ==
    IF m[1] = Forward
    THEN IF m = <<Forward, After, Before>> THEN None ELSE Some(t_elasped)
    ELSE IF m \in {<<Backward, After, After>>,
                   <<Backward, Inside, After>>}
    THEN Some(t_min)
    ELSE IF m = <<Backward, Before, After>> THEN None ELSE Some(t_elasped)

\* match_wrap_around reporting tween_elasped where Backward wrapped past the span.
match_wrap_around_backward_unclamped(m, t_elasped, t_min, t_max) ==
    IF m[1] = Backward
    THEN IF m = <<Backward, Before, After>> THEN None ELSE Some(t_elasped)
    ELSE IF m \in {<<Forward, Before, Before>>,
                   <<Forward, Inside, Before>>}
    THEN Some(t_max)
    ELSE IF m = <<Forward, After, Before>> THEN None ELSE Some(t_elasped)

\* match_wrap_around excluding, for each direction, the pair that stays on
\* the side the wrap left instead of the pair that crosses the span unseen.
match_wrap_around_excluding_stay(m, t_elasped, t_min, t_max) ==
    IF m \in {<<Forward, Before, Before>>,
              <<Forward, Inside, Before>>,
              <<Forward, After, Before>>}
    THEN Some(t_max)
    ELSE IF m \in {<<Forward, Before, Inside>>,
                   <<Forward, Before, After>>,
                   <<Forward, Inside, Inside>>,
                   <<Forward, Inside, After>>,
                   <<Forward, After, Inside>>}
    THEN Some(t_elasped)
    ELSE IF m \in {<<Backward, After, After>>,
                   <<Backward, Inside, After>>,
                   <<Backward, Before, After>>}
    THEN Some(t_min)
    ELSE IF m \in {<<Backward, Before, Inside>>,
                   <<Backward, Inside, Before>>,
                   <<Backward, Inside, Inside>>,
                   <<Backward, After, Before>>,
                   <<Backward, After, Inside>>}
    THEN Some(t_elasped)
    ELSE None

\* Lines 530-553: the arms for a tick that repeated with Some(WrapAround).
match_wrap_around(m, t_elasped, t_min, t_max) ==
    IF m \in {<<Forward, Before, Before>>,
              <<Forward, Inside, Before>>}
    THEN Some(t_max)
    ELSE IF m \in {<<Forward, Before, Inside>>,
                   <<Forward, Before, After>>,
                   <<Forward, Inside, Inside>>,
                   <<Forward, Inside, After>>,
                   <<Forward, After, Inside>>,
                   <<Forward, After, After>>}
    THEN Some(t_elasped)
    ELSE IF m \in {<<Backward, After, After>>,
                   <<Backward, Inside, After>>}
    THEN Some(t_min)
    ELSE IF m \in {<<Backward, Before, Before>>,
                   <<Backward, Before, Inside>>,
                   <<Backward, Inside, Before>>,
                   <<Backward, Inside, Inside>>,
                   <<Backward, After, Before>>,
                   <<Backward, After, Inside>>}
    THEN Some(t_elasped)
    ELSE None

\* match_ping_pong excluding, for Forward, After -> After instead of
\* Before -> Before.
match_ping_pong_same_exclusion(m, t_elasped) ==
    IF m \in {<<Backward, After, After>>, <<Forward, After, After>>}
    THEN None
    ELSE Some(t_elasped)

\* Lines 556-577: the arms for a tick that repeated with Some(PingPong).
match_ping_pong(m, t_elasped) ==
    IF m \in {<<Backward, Before, Before>>,
              <<Backward, Before, Inside>>,
              <<Backward, Before, After>>,
              <<Backward, Inside, Before>>,
              <<Backward, Inside, Inside>>,
              <<Backward, Inside, After>>,
              <<Backward, After, Before>>,
              <<Backward, After, Inside>>}
    THEN Some(t_elasped)
    ELSE IF m \in {<<Forward, Before, Inside>>,
                   <<Forward, Before, After>>,
                   <<Forward, Inside, Before>>,
                   <<Forward, Inside, Inside>>,
                   <<Forward, Inside, After>>,
                   <<Forward, After, Before>>,
                   <<Forward, After, Inside>>,
                   <<Forward, After, After>>}
    THEN Some(t_elasped)
    ELSE None

\* The match of lines 509-579: the span's new local elapsed, an Option<Duration>.
new_tween_elasped(direction, previous_quotient, elasped_quotient, repeat_style, t_elasped, t_min, t_max) ==
    LET m == <<direction, previous_quotient, elasped_quotient>>
    IN  IF repeat_style = None
        THEN match_no_repeat(m, t_elasped)
        ELSE IF repeat_style = Some(WrapAround)
        THEN match_wrap_around(m, t_elasped, t_min, t_max)
        ELSE IF repeat_style = Some(PingPong)
        THEN match_ping_pong(m, t_elasped)
        ELSE None

\* Lines 490-497: the span's local duration and the clamped local elapsed.
tween_min == 0

\* tween_max as the span's max on the timer's timeline.
tween_max_on_timeline(tween_span) == duration(tween_span.max)

tween_max(tween_span) == duration(tween_span.max) - duration(tween_span.min)

\* tween_elasped without the clamp to tween_max.
tween_elasped_unclamped(timer, tween_span) ==
    saturating_sub(timer.elasped.now, duration(tween_span.min))

tween_elasped(timer, tween_span) ==
    Min2(saturating_sub(timer.elasped.now, duration(tween_span.min)),
         tween_max(tween_span))

\* new_tween_state keeping the stored local_elasped when the match excludes
\* the transition.
new_tween_state_skipping_excluded(timer, tween_span, tween_state) ==
    LET new == new_tween_elasped(timer.direction,
                                 quotient(tween_span, timer.elasped.previous),
                                 quotient(tween_span, timer.elasped.now),
                                 timer.elasped.repeat_style,
                                 tween_elasped(timer, tween_span),
                                 tween_min,
                                 tween_max(tween_span))
    IN  [local_elasped |-> IF new = None THEN tween_state.local_elasped ELSE new,
         local_previous_elasped |-> tween_state.local_elasped,
         local_end |-> tween_max(tween_span),
         direction |-> timer.direction]

\* new_tween_state updating local_previous_elasped only when the match resolves.
new_tween_state_merging(timer, tween_span, tween_state) ==
    LET new == new_tween_elasped(timer.direction,
                                 quotient(tween_span, timer.elasped.previous),
                                 quotient(tween_span, timer.elasped.now),
                                 timer.elasped.repeat_style,
                                 tween_elasped(timer, tween_span),
                                 tween_min,
                                 tween_max(tween_span))
    IN  [local_elasped |-> new,
         local_previous_elasped |->
             IF new = None
             THEN tween_state.local_previous_elasped
             ELSE tween_state.local_elasped,
         local_end |-> tween_max(tween_span),
         direction |-> timer.direction]

\* Lines 486-585: the TweenState written for one span of a ticked timer.
new_tween_state(timer, tween_span, tween_state) ==
    [local_elasped |->
        new_tween_elasped(timer.direction,
                          quotient(tween_span, timer.elasped.previous),
                          quotient(tween_span, timer.elasped.now),
                          timer.elasped.repeat_style,
                          tween_elasped(timer, tween_span),
                          tween_min,
                          tween_max(tween_span)),
     local_previous_elasped |-> tween_state.local_elasped,
     local_end |-> tween_max(tween_span),
     direction |-> timer.direction]

\* The two panics of the loop body: unreachable!() in quotient and the
\* overflow of Duration's subtraction in tween_max.
resolve_panics(timer, tween_span) ==
    \/ quotient(tween_span, timer.elasped.now) = Unreachable
    \/ quotient(tween_span, timer.elasped.previous) = Unreachable
    \/ duration(tween_span.max) < duration(tween_span.min)

(***************************************************************************)
(* The world: entities and their components                                *)
(***************************************************************************)
Entity == {"p1", "c1", "p2", "c2", "c3", "g1"}

VARIABLES
    player,       \* SpanTweenPlayer: entity -> its timer
    children,     \* Children: entity -> sequence of child entities
    tween_span,   \* TweenTimeSpan: entity -> span
    tween_state,  \* TweenState: entity -> progress state
    ended,        \* SpanTweenPlayerEnded events sent by the last system run
    trace,        \* the operations of the last system run, in program order
    panicked,     \* the program panicked
    call          \* the last call of the public interface: function, arguments, value returned

vars == <<player, children, tween_span, tween_state, ended, trace, panicked, call>>

\* No call of the public interface has been made.
NoCall == [fn |-> "", args |-> << >>, ret |-> << >>]

\* One recorded operation of a system run.
Op(op, player_entity, entity, result) ==
    [op |-> op, player |-> player_entity, entity |-> entity, result |-> result]

\* Lines 465-469
SpanTweenPlayerEnded(player_entity, timer) ==
    [tween_player |-> player_entity,
     current_direction |-> timer.direction,
     with_repeat |-> timer.repeat]

\* tweens_of reaching the children of the player's children as well.
tweens_of_with_grandchildren(w, player_entity) ==
    <<player_entity>> \o
    SelectSeq(w.children[player_entity], LAMBDA c : c \notin DOMAIN w.player) \o
    SelectSeq(<<"p1", "c1", "p2", "c2", "c3", "g1">>,
              LAMBDA g : /\ g \notin DOMAIN w.player
                         /\ \E i \in DOMAIN w.children[player_entity] :
                               \E j \in DOMAIN w.children[w.children[player_entity][i]] :
                                   w.children[w.children[player_entity][i]][j] = g)

\* tweens_of taking every child, players included.
tweens_of_unfiltered(w, player_entity) ==
    <<player_entity>> \o w.children[player_entity]

\* Lines 474-478: the player's own entity, then its children that are not players.
tweens_of(w, player_entity) ==
    <<player_entity>> \o
    SelectSeq(w.children[player_entity], LAMBDA c : c \notin DOMAIN w.player)

\* Lines 479-587: the loop over the entities the player drives.
RECURSIVE resolve_tweens(_, _, _)
resolve_tweens(w, player_entity, tweens) ==
    IF tweens = << >> \/ w.panicked
    THEN w
    ELSE LET tween_entity == Head(tweens)
             timer == w.player[player_entity]
         IN  IF ~(tween_entity \in DOMAIN w.tween_state
                  /\ tween_entity \in DOMAIN w.tween_span)
             THEN resolve_tweens(w, player_entity, Tail(tweens))
             ELSE IF resolve_panics(timer, w.tween_span[tween_entity])
             THEN [w EXCEPT !.panicked = TRUE]
             ELSE resolve_tweens(
                      [w EXCEPT
                          !.tween_state[tween_entity] =
                              new_tween_state(timer, w.tween_span[tween_entity], @),
                          !.trace = Append(@, Op("resolve", player_entity, tween_entity, ""))],
                      player_entity, Tail(tweens))

\* tick_player sending the event only when the timer is all done.
tick_player_silent_repeat(w, player_entity, delta) ==
    LET timer == w.player[player_entity]
        scaled == delta * timer.speed_scale
        ticked == tick(timer, scaled, timer.direction)
        w1 == [w EXCEPT
                  !.player[player_entity] = ticked.timer,
                  !.trace = Append(@, Op("tick", player_entity, player_entity, ticked.result))]
    IN  IF ticked.result = "AllDone"
        THEN [w1 EXCEPT
                 !.ended = Append(@, SpanTweenPlayerEnded(player_entity, ticked.timer)),
                 !.trace = Append(@, Op("send", player_entity, player_entity, ""))]
        ELSE w1

\* Lines 461-472: tick the timer and send the event.
tick_player(w, player_entity, delta) ==
    LET timer == w.player[player_entity]
        scaled == delta * timer.speed_scale
        ticked == tick(timer, scaled, timer.direction)
        w1 == [w EXCEPT
                  !.player[player_entity] = ticked.timer,
                  !.trace = Append(@, Op("tick", player_entity, player_entity, ticked.result))]
    IN  IF ticked.result \in {"AllDone", "Repeated"}
        THEN [w1 EXCEPT
                 !.ended = Append(@, SpanTweenPlayerEnded(player_entity, ticked.timer)),
                 !.trace = Append(@, Op("send", player_entity, player_entity, ""))]
        ELSE w1

\* for_each_player without the early return for a paused timer.
for_each_player_ignoring_pause(w, player_entity, delta) ==
    LET timer == w.player[player_entity]
    IN  IF is_all_done(timer)
        THEN w
        ELSE LET w1 == tick_player(w, player_entity, delta)
             IN  resolve_tweens(w1, player_entity, tweens_of(w1, player_entity))

\* for_each_player resolving the spans before it ticks the timer.
for_each_player_resolving_first(w, player_entity, delta) ==
    LET timer == w.player[player_entity]
    IN  IF timer.paused
        THEN w
        ELSE IF is_all_done(timer)
        THEN w
        ELSE LET w1 == resolve_tweens(w, player_entity, tweens_of(w, player_entity))
             IN  tick_player(w1, player_entity, delta)

\* Lines 447-588: the closure run for one player.
for_each_player(w, player_entity, delta) ==
    LET timer == w.player[player_entity]
    IN  IF timer.paused
        THEN w
        ELSE IF is_all_done(timer)
        THEN w
        ELSE LET w1 == tick_player(w, player_entity, delta)
             IN  resolve_tweens(w1, player_entity, tweens_of(w1, player_entity))

\* Lines 446-589: the players in the order the query yields them.
RECURSIVE iter_players(_, _, _)
iter_players(w, order, delta) ==
    IF order = << >> \/ w.panicked
    THEN w
    ELSE iter_players(for_each_player(w, Head(order), delta), Tail(order), delta)

\* The orders in which the query may yield the players.
Orders(S) ==
    {o \in [1..Cardinality(S) -> S] : \A i, j \in 1..Cardinality(S) : i # j => o[i] # o[j]}

World ==
    [player |-> player, children |-> children, tween_span |-> tween_span,
     tween_state |-> tween_state, ended |-> << >>, trace |-> << >>,
     panicked |-> panicked]

\* One run of span_tween_player_system with frame delta `delta`.
span_tween_player_system(delta, order) ==
    /\ ~panicked
    /\ \E w \in {iter_players(World, order, delta)} :
           /\ player' = w.player
           /\ tween_state' = w.tween_state
           /\ ended' = w.ended
           /\ trace' = w.trace
           /\ panicked' = w.panicked
    /\ UNCHANGED <<children, tween_span, call>>

Update ==
    \E delta \in 0..MaxDelta : \E order \in Orders(DOMAIN player) :
        span_tween_player_system(delta, order)

\* TweenTimer::set_paused
set_paused(player_entity, paused) ==
    /\ ~panicked
    /\ player[player_entity].paused # paused
    /\ player' = [player EXCEPT ![player_entity].paused = paused]
    /\ UNCHANGED <<children, tween_span, tween_state, ended, trace, panicked, call>>

SetPaused ==
    \E player_entity \in DOMAIN player : \E paused \in BOOLEAN :
        set_paused(player_entity, paused)

\* TweenTimer::set_direction
set_direction(player_entity, direction) ==
    /\ ~panicked
    /\ player[player_entity].direction # direction
    /\ player' = [player EXCEPT ![player_entity].direction = direction]
    /\ UNCHANGED <<children, tween_span, tween_state, ended, trace, panicked, call>>

SetDirection ==
    \E player_entity \in DOMAIN player : \E direction \in AnimationDirection :
        set_direction(player_entity, direction)

(***************************************************************************)
(* Specifications                                                          *)
(***************************************************************************)
\* The repeat configurations of SpanTweenPlayerBundle: without_repeat, or
\* with_repeat and with_repeat_style.
RepeatConfigs ==
    {<<None, None>>} \cup
    {<<Some(r), Some(st)>> :
        r \in {Infinitely} \cup {Times(n) : n \in 1..MaxTimes}, st \in RepeatStyle}

NoChildren == [e \in Entity |-> << >>]

\* A player that is its own span tween (SpanTweenPlayerBundle and
\* SpanTweenBundle on one entity), for every span and timer configuration.
Init ==
    /\ \E dur \in {MaxTime}, direction \in AnimationDirection, rc \in RepeatConfigs :
          player = [e \in {"p1"} |-> TweenTimer(dur, direction, rc[1], rc[2], 1)]
    /\ children = NoChildren
    /\ tween_span \in [{"p1"} -> ValidSpans]
    /\ tween_state = [e \in {"p1"} |-> DefaultTweenState]
    /\ ended = << >>
    /\ trace = << >>
    /\ panicked = FALSE
    /\ call = NoCall

Next == Update \/ SetDirection

Spec == Init /\ [][Next]_vars

\* A player p1 that is also a span tween, with the children c1 (a span
\* tween), p2 (another player, itself a span tween, with the child g1), c2
\* (a TweenTimeSpan without TweenState) and c3 (a TweenState without
\* TweenTimeSpan).
InitWorld ==
    /\ \E st \in RepeatStyle :
          player = [e \in {"p1", "p2"} |->
                       IF e = "p1"
                       THEN TweenTimer(MaxTime, Forward, Some(Times(MaxTimes)), Some(st), 1)
                       ELSE TweenTimer(MaxTime, Forward, None, None, 2)]
    /\ children = [e \in Entity |->
                      IF e = "p1" THEN <<"c1", "p2", "c2", "c3">>
                      ELSE IF e = "p2" THEN <<"g1">>
                      ELSE << >>]
    /\ tween_span = [e \in {"p1", "c1", "p2", "c2", "g1"} |->
                        IF e = "p1" THEN from_range_to(MaxTime).span
                        ELSE IF e = "c1" THEN from_range_inclusive(1, 2).span
                        ELSE IF e = "p2" THEN from_range_to_inclusive(MaxTime).span
                        ELSE IF e = "c2" THEN from_range(0, 1).span
                        ELSE from_range(1, MaxTime).span]
    /\ tween_state = [e \in {"p1", "c1", "p2", "c3", "g1"} |-> DefaultTweenState]
    /\ ended = << >>
    /\ trace = << >>
    /\ panicked = FALSE
    /\ call = NoCall

NextWorld == Update \/ SetPaused

SpecWorld == InitWorld /\ [][NextWorld]_vars

\* The resolver on its own: the loop of lines 479-587 applied once to the
\* span of a player whose timer holds an arbitrary elapsed sample; the span's
\* state is the default one or one an earlier tick resolved to 0.
InitResolve ==
    /\ \E direction \in AnimationDirection,
          now \in 0..MaxSample,
          previous \in 0..MaxSample,
          repeat_style \in {None} \cup {Some(st) : st \in RepeatStyle} :
          player = [e \in {"p1"} |->
                       [TweenTimer(MaxSample, direction, Some(Infinitely),
                                   Some(WrapAround), 1)
                        EXCEPT !.elasped = [now |-> now,
                                            previous |-> previous,
                                            repeat_style |-> repeat_style]]]
    /\ children = NoChildren
    /\ tween_span \in [{"p1"} -> ValidSpans]
    /\ \/ tween_state = [e \in {"p1"} |-> DefaultTweenState]
       \/ tween_state = [e \in {"p1"} |->
                             [local_elasped |-> Some(0),
                              local_previous_elasped |-> None,
                              local_end |-> tween_max(tween_span[e]),
                              direction |-> player[e].direction]]
    /\ ended = << >>
    /\ trace = << >>
    /\ panicked = FALSE
    /\ call = NoCall

Resolve ==
    /\ ~panicked
    /\ trace = << >>
    /\ \E w \in {resolve_tweens(World, "p1", tweens_of(World, "p1"))} :
           /\ tween_state' = w.tween_state
           /\ trace' = w.trace
           /\ panicked' = w.panicked
    /\ UNCHANGED <<player, children, tween_span, ended, call>>

NextResolve == Resolve

SpecResolve == InitResolve /\ [][NextResolve]_vars

\* Forward playback without repeat from elapsed 0: the player's own span is
\* 1..3 and its child c1 carries any span of the timeline.
InitForward ==
    /\ player = [e \in {"p1"} |-> TweenTimer(ForwardDuration, Forward, None, None, 1)]
    /\ children = [e \in Entity |-> IF e = "p1" THEN <<"c1">> ELSE << >>]
    /\ \E s \in ValidSpans :
          tween_span = [e \in {"p1", "c1"} |->
                           IF e = "p1" THEN from_range(1, 3).span ELSE s]
    /\ tween_state = [e \in {"p1", "c1"} |-> DefaultTweenState]
    /\ ended = << >>
    /\ trace = << >>
    /\ panicked = FALSE
    /\ call = NoCall

NextForward == Update \/ SetPaused

SpecForward == InitForward /\ [][NextForward]_vars

(***************************************************************************)
(* The public interface: spans, bundles, the builder and the event         *)
(***************************************************************************)
\* The largest number of span tweens built under one parent.
MaxTweens == 1

\* Lines 242-244
span_min(span) == span.min

\* Lines 247-249
span_max(span) == span.max

\* Lines 252-256
DefaultTweenTimeSpan == from_range(0, 0).span

\* The values passed as `span: S` where S: TryInto<TweenTimeSpan>.
Range(a, b) == [shape |-> "Range", v |-> <<a, b>>]

RangeInclusive(a, b) == [shape |-> "RangeInclusive", v |-> <<a, b>>]

RangeTo(b) == [shape |-> "RangeTo", v |-> <<b>>]

RangeToInclusive(b) == [shape |-> "RangeToInclusive", v |-> <<b>>]

SpanValue(span) == [shape |-> "TweenTimeSpan", v |-> <<span>>]

Ranges ==
    {Range(a, b) : a, b \in 0..MaxTime}
        \cup {RangeInclusive(a, b) : a, b \in 0..MaxTime}
        \cup {RangeTo(b) : b \in 0..MaxTime}
        \cup {RangeToInclusive(b) : b \in 0..MaxTime}

\* Lines 258-303, and the identity conversion of a TweenTimeSpan into itself.
try_into(arg) ==
    CASE arg.shape = "Range" -> from_range(arg.v[1], arg.v[2])
      [] arg.shape = "RangeInclusive" -> from_range_inclusive(arg.v[1], arg.v[2])
      [] arg.shape = "RangeTo" -> from_range_to(arg.v[1])
      [] arg.shape = "RangeToInclusive" -> from_range_to_inclusive(arg.v[1])
      [] arg.shape = "TweenTimeSpan" -> [ok |-> TRUE, span |-> arg.v[1]]

\* SpanTweenBundle_new falling back to the default span on an Err.
SpanTweenBundle_new_or_default(arg) ==
    LET r == try_into(arg)
    IN  [panic |-> FALSE,
         span |-> IF r.ok THEN r.span ELSE DefaultTweenTimeSpan,
         state |-> DefaultTweenState]

\* Lines 392-401: `expect("valid span")` panics on an Err.
SpanTweenBundle_new(arg) ==
    LET r == try_into(arg)
    IN  IF r.ok
        THEN [panic |-> FALSE, span |-> r.span, state |-> DefaultTweenState]
        ELSE [panic |-> TRUE]

\* The first entity that carries no span yet.
spawn(w) ==
    LET free == SelectSeq(<<"c1", "c2", "c3">>, LAMBDA e : e \notin DOMAIN w.tween_span)
    IN  Head(free)

\* Lines 633-653: spawn a child of the builder's parent with the bundle.
tween_and(w, parent, arg) ==
    LET bundle == SpanTweenBundle_new(arg)
        e == spawn(w)
    IN  IF bundle.panic
        THEN [w EXCEPT !.panicked = TRUE]
        ELSE [w EXCEPT
                 !.tween_span = [x \in DOMAIN @ \cup {e} |->
                                    IF x = e THEN bundle.span ELSE @[x]],
                 !.tween_state = [x \in DOMAIN @ \cup {e} |->
                                    IF x = e THEN bundle.state ELSE @[x]],
                 !.children[parent] = Append(@, e)]

\* Lines 615-630
tween(w, parent, arg) == tween_and(w, parent, arg)

\* Lines 658-664
jump_and(w, parent, at) == tween_and(w, parent, RangeInclusive(at, at))

\* Lines 668-673
jump(w, parent, at) == tween_and(w, parent, RangeInclusive(at, at))

\* is_all_done answering false for an event without repeat.
SpanTweenPlayerEnded_is_all_done_needing_repeat(event) ==
    IF event.with_repeat = None THEN FALSE ELSE exhausted(event.with_repeat[1])

\* Lines 420-424
SpanTweenPlayerEnded_is_all_done(event) ==
    IF event.with_repeat = None THEN TRUE ELSE exhausted(event.with_repeat[1])

\* The repeats an event can carry.
Repeats ==
    {Infinitely} \cup
    {[Times(n) EXCEPT !.times_repeated = k] : n \in 0..MaxTimes, k \in 0..(MaxTimes + 1)}

Events ==
    {[tween_player |-> p, current_direction |-> d, with_repeat |-> r] :
        p \in {"p1", "p2"},
        d \in AnimationDirection,
        r \in {None} \cup {Some(x) : x \in Repeats}}

Called(fn, args, ret) == [fn |-> fn, args |-> args, ret |-> ret]

\* TweenTimeSpan::new on any two bounds.
New ==
    /\ ~panicked
    /\ \E min \in TimeBound, max \in TimeBound :
          call' = Called("new", <<min, max>>, TweenTimeSpan_new(min, max))
    /\ UNCHANGED <<player, children, tween_span, tween_state, ended, trace, panicked>>

\* TweenTimeSpan::try_from on any range.
TryFrom ==
    /\ ~panicked
    /\ \E arg \in Ranges : call' = Called("try_from", <<arg>>, try_into(arg))
    /\ UNCHANGED <<player, children, tween_span, tween_state, ended, trace, panicked>>

\* TweenTimeSpan::default
Default ==
    /\ ~panicked
    /\ call' = Called("default", << >>, DefaultTweenTimeSpan)
    /\ UNCHANGED <<player, children, tween_span, tween_state, ended, trace, panicked>>

\* A world after a call of the builder; the call records the Result of
\* converting its span argument.
Built(fn, args, arg, w) ==
    /\ children' = w.children
    /\ tween_span' = w.tween_span
    /\ tween_state' = w.tween_state
    /\ panicked' = w.panicked
    /\ call' = Called(fn, args, try_into(arg))
    /\ UNCHANGED <<player, ended, trace>>

\* SpanTweensBuilder::tween with a range, or with a span TweenTimeSpan::new
\* returned.
Tween ==
    /\ ~panicked
    /\ Cardinality(DOMAIN tween_span) < MaxTweens
    /\ \/ \E arg \in Ranges :
             Built("tween", <<arg>>, arg, tween(World, "p1", arg))
       \/ \E span \in ValidSpans :
             Built("tween", <<SpanValue(span)>>, SpanValue(span),
                   tween(World, "p1", SpanValue(span)))

\* SpanTweensBuilder::jump and jump_and
Jump ==
    /\ ~panicked
    /\ Cardinality(DOMAIN tween_span) < MaxTweens
    /\ \E at \in 0..MaxTime :
          \/ Built("jump", <<at>>, RangeInclusive(at, at), jump(World, "p1", at))
          \/ Built("jump_and", <<at>>, RangeInclusive(at, at), jump_and(World, "p1", at))

\* TweenTimeSpan::quotient of a built span at any instant.
Quotient ==
    /\ ~panicked
    /\ \E e \in DOMAIN tween_span, d \in 0..(MaxTime + 1) :
          /\ call' = Called("quotient", <<tween_span[e], d>>, quotient(tween_span[e], d))
          /\ panicked' = (quotient(tween_span[e], d) = Unreachable)
    /\ UNCHANGED <<player, children, tween_span, tween_state, ended, trace>>

\* SpanTweenPlayerEnded::is_all_done on any event.
IsAllDone ==
    /\ ~panicked
    /\ \E event \in Events :
          call' = Called("is_all_done", <<event>>, SpanTweenPlayerEnded_is_all_done(event))
    /\ UNCHANGED <<player, children, tween_span, tween_state, ended, trace, panicked>>

\* A parent entity with nothing built under it yet.
InitApi ==
    /\ player = << >>
    /\ children = NoChildren
    /\ tween_span = << >>
    /\ tween_state = << >>
    /\ ended = << >>
    /\ trace = << >>
    /\ panicked = FALSE
    /\ call = NoCall

\* A frame whose delta is positive.
Advance ==
    \E delta \in 1..MaxDelta : \E order \in Orders(DOMAIN player) :
        span_tween_player_system(delta, order)

\* Forward playback without repeat from elapsed 0 to the timer's duration,
\* of a player that is its own span tween, for every span of the timeline.
InitPlayback ==
    /\ player = [e \in {"p1"} |-> TweenTimer(MaxTime, Forward, None, None, 1)]
    /\ children = NoChildren
    /\ tween_span \in [{"p1"} -> ValidSpans]
    /\ tween_state = [e \in {"p1"} |-> DefaultTweenState]
    /\ ended = << >>
    /\ trace = << >>
    /\ panicked = FALSE
    /\ call = NoCall

NextPlayback == Advance

\* The schedule runs the system every frame, so frames keep coming.
SpecPlayback == InitPlayback /\ [][NextPlayback]_vars /\ WF_vars(Advance)

\* A player without spans of its own, for every timer configuration; the
\* builder then adds jumps under it while the system runs.
InitJump ==
    /\ \E direction \in AnimationDirection, rc \in RepeatConfigs :
          player = [e \in {"p1"} |-> TweenTimer(MaxTime, direction, rc[1], rc[2], 1)]
    /\ children = NoChildren
    /\ tween_span = << >>
    /\ tween_state = << >>
    /\ ended = << >>
    /\ trace = << >>
    /\ panicked = FALSE
    /\ call = NoCall

NextJump == Jump \/ Update

SpecJump == InitJump /\ [][NextJump]_vars

\* The constructors of spans and the event's query, called on any argument.
NextSpan == New \/ TryFrom \/ Default \/ IsAllDone

SpecSpan == InitApi /\ [][NextSpan]_vars

\* The builder spawning span tweens, and the quotient of the spans built.
NextBuild == Tween \/ Jump \/ Quotient

SpecBuild == InitApi /\ [][NextBuild]_vars

(***************************************************************************)
(* Properties                                                              *)
(***************************************************************************)
\* Entity e was resolved by the last system run.
resolved(e) == \E i \in DOMAIN trace : trace[i].op = "resolve" /\ trace[i].entity = e

\* The player that resolved entity e in the last system run.
resolver_of(e) ==
    trace[CHOOSE i \in DOMAIN trace : trace[i].op = "resolve" /\ trace[i].entity = e].player

\* The elapsed sample entity e was resolved against.
sample_of(e) == player[resolver_of(e)].elasped

previous_quotient_of(e) == quotient(tween_span[e], sample_of(e).previous)

elasped_quotient_of(e) == quotient(tween_span[e], sample_of(e).now)

\* clamp(now - min.duration(), 0, max.duration() - min.duration())
Clamped(span, now) ==
    Max2(0, Min2(now - duration(span.min), duration(span.max) - duration(span.min)))

\* <<direction, previous quotient, current quotient>> of the resolution of e; the
\* direction is the one the resolver stored, the timer's at the time of the tick.
transition_of(e) ==
    <<tween_state[e].direction, previous_quotient_of(e), elasped_quotient_of(e)>>

\* C1 as stated: the resolver never produces None for a sample a ticking timer
\* supplies.
C1_NeverNone ==
    \A e \in DOMAIN tween_state : resolved(e) => tween_state[e].local_elasped # None

\* C1 amended: for every sample a ticking timer supplies, the resolver produces
\* None only when neither the previous nor the current instant is Inside the
\* span; a tick that starts or ends Inside the span always resolves to Some.
C1_InsideResolves ==
    \A e \in DOMAIN tween_state :
        resolved(e) /\ (previous_quotient_of(e) = Inside \/ elasped_quotient_of(e) = Inside)
            => tween_state[e].local_elasped # None

C1_Witness ==
    /\ resolved("p1")
    /\ sample_of("p1").repeat_style = Some(WrapAround)
    /\ transition_of("p1") = <<Forward, Inside, Before>>
    /\ tween_state["p1"].local_elasped = Some(tween_max(tween_span["p1"]))

\* The transitions C2 lists as resolving under repeat_style None.
C2_Listed ==
    {<<Forward, Inside, Inside>>, <<Backward, Inside, Inside>>,
     <<Forward, Before, Inside>>, <<Forward, Inside, After>>, <<Forward, Before, After>>,
     <<Backward, After, Inside>>, <<Backward, Inside, Before>>, <<Backward, After, Before>>}

\* C2: with repeat_style None the resolver gives Some(tween_elapsed) exactly for
\* the listed transitions and None for every other one.
C2_NoRepeatTable ==
    \A e \in DOMAIN tween_state :
        resolved(e) /\ sample_of(e).repeat_style = None
            => tween_state[e].local_elasped =
                   IF transition_of(e) \in C2_Listed
                   THEN Some(Clamped(tween_span[e], sample_of(e).now))
                   ELSE None

C2_Witness ==
    /\ resolved("p1")
    /\ sample_of("p1").repeat_style = None
    /\ transition_of("p1") = <<Forward, Inside, Before>>
    /\ tween_state["p1"].local_elasped = None

\* C3: on a WrapAround tick with direction Forward, previous Before or Inside
\* with now Before resolves to tween_max, every transition with now Inside or
\* After resolves to tween_elapsed, and so previous Before or Inside with now
\* not Inside reports tween_max.
C3_WrapAroundForward ==
    \A e \in DOMAIN tween_state :
        resolved(e) /\ sample_of(e).repeat_style = Some(WrapAround)
                    /\ tween_state[e].direction = Forward
            => LET span == tween_span[e]
                   local_max == duration(span.max) - duration(span.min)
                   pq == previous_quotient_of(e)
                   eq == elasped_quotient_of(e)
                   value == tween_state[e].local_elasped
               IN  /\ pq \in {Before, Inside} /\ eq = Before => value = Some(local_max)
                   /\ eq \in {Inside, After}
                          => value = Some(Clamped(span, sample_of(e).now))
                   /\ pq \in {Before, Inside} /\ eq # Inside => value = Some(local_max)

\* The documented skip: span 1..2 of a timer of duration 10 ticked by 15 from 0
\* (sample 0 -> 5) reports 1.
C3_Witness ==
    /\ resolved("p1")
    /\ sample_of("p1") = [now |-> 5, previous |-> 0, repeat_style |-> Some(WrapAround)]
    /\ tween_state["p1"].direction = Forward
    /\ tween_span["p1"] = from_range(1, 2).span
    /\ tween_state["p1"].local_elasped = Some(1)

\* C4: on a WrapAround tick with direction Backward, previous After or Inside
\* with now After resolves to tween_min = 0 and every transition with now Inside
\* or Before resolves to tween_elapsed.
C4_WrapAroundBackward ==
    \A e \in DOMAIN tween_state :
        resolved(e) /\ sample_of(e).repeat_style = Some(WrapAround)
                    /\ tween_state[e].direction = Backward
            => LET span == tween_span[e]
                   pq == previous_quotient_of(e)
                   eq == elasped_quotient_of(e)
                   value == tween_state[e].local_elasped
               IN  /\ pq \in {After, Inside} /\ eq = After => value = Some(0)
                   /\ eq \in {Inside, Before}
                          => value = Some(Clamped(span, sample_of(e).now))

C4_Witness ==
    /\ resolved("p1")
    /\ sample_of("p1").repeat_style = Some(WrapAround)
    /\ transition_of("p1") = <<Backward, Inside, After>>
    /\ tween_max(tween_span["p1"]) > 0
    /\ tween_state["p1"].local_elasped = Some(0)

\* Every instant of a timer of duration dur is Inside the span.
Covers(span, dur) == \A d \in 0..dur : quotient(span, d) = Inside

\* C5: on a PingPong tick the direction the resolver uses and stores is the
\* timer's direction after the flip; the result is None for Forward
\* Before -> Before and Backward After -> After and Some(tween_elapsed) of the
\* post-tick now for the other eight pairs of each direction; for a span that
\* covers the timer's whole duration the stored value is the tween_elapsed of
\* the reflected position.
C5_PingPongTable ==
    [][Update =>
        \A e \in DOMAIN tween_state :
            resolved(e)' /\ sample_of(e)'.repeat_style = Some(PingPong)
                => LET p == resolver_of(e)'
                       span == tween_span[e]
                       now == player'[p].elasped.now
                       dir == player'[p].direction
                       tr == <<dir, quotient(span, player'[p].elasped.previous),
                               quotient(span, now)>>
                       value == tween_state'[e].local_elasped
                   IN  /\ dir # player[p].direction
                       /\ tween_state'[e].direction = dir
                       /\ value = IF tr \in {<<Forward, Before, Before>>,
                                             <<Backward, After, After>>}
                                  THEN None
                                  ELSE Some(Clamped(span, now))
                       /\ Covers(span, player[p].duration)
                              => value = Some(now - duration(span.min))]_vars

\* The flip tick of a forward PingPong timer whose span is ..=duration.
C5_Witness ==
    /\ resolved("p1")
    /\ sample_of("p1").repeat_style = Some(PingPong)
    /\ tween_span["p1"] = from_range_to_inclusive(player["p1"].duration).span
    /\ player["p1"].direction = Backward
    /\ tween_state["p1"].direction = Backward
    /\ sample_of("p1").now < sample_of("p1").previous
    /\ tween_state["p1"].local_elasped = Some(sample_of("p1").now)

\* The results C6 lists for the ticks 0 -> 1, 1 -> 2, 2 -> 3, 3 -> 4, 4 -> 5.
C6_Expected == <<Some(0), Some(1), Some(2), None, None>>

\* The k-th tick of one time unit of a timer started at 0.
C6_Tick(sample, k) == sample = [now |-> k, previous |-> k - 1, repeat_style |-> None]

\* C6: for the span 1..3 of a forward player without repeat ticked from 0 to 5
\* in steps of 1, the resolver's results on the successive ticks are 0, 1,
\* 2 = tween_max, None, None, each tick keeping the result of the tick before
\* as local_previous_elasped.
C6_ForwardPlayback ==
    [][Update /\ tween_span["p1"] = from_range(1, 3).span /\ resolved("p1")'
        => \A k \in 1..5 :
              C6_Tick(player'["p1"].elasped, k)
                  => /\ tween_state'["p1"].local_elasped = C6_Expected[k]
                     /\ k > 1 /\ resolved("p1") /\ C6_Tick(player["p1"].elasped, k - 1)
                            => tween_state'["p1"].local_previous_elasped
                                   = C6_Expected[k - 1]]_vars

\* The fourth tick, 3 -> 4: excluded, after the third one resolved to 2.
C6_Witness ==
    /\ resolved("p1")
    /\ tween_span["p1"] = from_range(1, 3).span
    /\ C6_Tick(player["p1"].elasped, 4)
    /\ player["p1"].direction = Forward
    /\ player["p1"].repeat = None
    /\ tween_state["p1"].local_elasped = None
    /\ tween_state["p1"].local_previous_elasped = Some(2)
    /\ tween_state["p1"].local_end = 2

\* The resolver's result for a span against the sample of a timer.
resolution(timer, span) ==
    new_tween_elasped(timer.direction,
                      quotient(span, timer.elasped.previous),
                      quotient(span, timer.elasped.now),
                      timer.elasped.repeat_style,
                      tween_elasped(timer, span),
                      tween_min,
                      tween_max(span))

\* C7 as stated: an excluded tick never overwrites a stored Some value with None.
C7_ExcludedKeepsValue ==
    [][\A e \in DOMAIN tween_state :
          tween_state[e].local_elasped # None => tween_state'[e].local_elasped # None]_vars

\* C7 amended: when the resolver excludes a transition, the span's stored
\* local_elasped is overwritten with None; the value stored before the tick
\* persists only as local_previous_elasped.
C7_ExcludedClears ==
    [][Update =>
        \A e \in DOMAIN tween_state :
            resolved(e)' /\ resolution(player'[resolver_of(e)'], tween_span[e]) = None
                => /\ tween_state'[e].local_elasped = None
                   /\ tween_state'[e].local_previous_elasped
                          = tween_state[e].local_elasped]_vars

C7_Witness ==
    /\ resolved("p1")
    /\ resolution(player["p1"], tween_span["p1"]) = None
    /\ tween_state["p1"].local_elasped = None
    /\ tween_state["p1"].local_previous_elasped # None

\* Player p was ticked by the last system run.
ticked(p) == \E i \in DOMAIN trace : trace[i].op = "tick" /\ trace[i].player = p

\* The entities whose progress state player p drives: itself and its direct
\* children that are not players, when they carry a span and a state.
Owned(p) ==
    {e \in DOMAIN tween_span \cap DOMAIN tween_state :
        \/ e = p
        \/ e \notin DOMAIN player /\ \E i \in DOMAIN children[p] : children[p][i] = e}

\* C8: after every tick of a player each span it owns has its whole state
\* replaced: local_previous_elasped is the local_elasped held before the tick,
\* local_end is max.duration() - min.duration(), direction is the timer's
\* direction after the tick and local_elasped is the resolver's result.
C8_StateReplaced ==
    [][Update =>
        \A p \in DOMAIN player :
            ticked(p)' =>
                \A e \in Owned(p) :
                    /\ tween_state'[e].local_previous_elasped = tween_state[e].local_elasped
                    /\ tween_state'[e].local_end
                           = duration(tween_span[e].max) - duration(tween_span[e].min)
                    /\ tween_state'[e].direction = player'[p].direction
                    /\ tween_state'[e].local_elasped = resolution(player'[p], tween_span[e])
                    /\ DOMAIN tween_state'[e]
                           = {"local_elasped", "local_previous_elasped",
                              "local_end", "direction"}]_vars

\* A child span resolved on two ticks in a row, the second after a flip.
C8_Witness ==
    /\ ticked("p1")
    /\ resolved("c1")
    /\ tween_state["c1"].direction = Backward
    /\ tween_state["c1"].local_elasped # None
    /\ tween_state["c1"].local_previous_elasped # None
    /\ tween_state["c1"].local_previous_elasped # tween_state["c1"].local_elasped
    /\ tween_state["c1"].local_end = 1

\* C9: a system run skips a player whose timer is paused or all done: its
\* timer is unchanged, no SpanTweenPlayerEnded names it and the state of every
\* span it owns is unchanged.
C9_SkippedUntouched ==
    [][Update =>
        \A p \in DOMAIN player :
            player[p].paused \/ is_all_done(player[p])
                => /\ player'[p] = player[p]
                   /\ \A i \in DOMAIN ended' : ended'[i].tween_player # p
                   /\ \A e \in Owned(p) : tween_state'[e] = tween_state[e]]_vars

\* The last run ticked p1 and skipped p2, which is all done and holds state.
C9_Witness ==
    /\ ticked("p1")
    /\ ~ticked("p2")
    /\ ~player["p2"].paused
    /\ is_all_done(player["p2"])
    /\ tween_state["g1"].local_elasped # None

\* C10: a ticked player gets exactly one SpanTweenPlayerEnded in the run when
\* the tick result is Repeated or AllDone and none on Continue; the event
\* carries the player, the timer's direction after the tick (flipped under
\* PingPong) and the timer's repeat after the tick, and is sent before any of
\* the player's spans is resolved.
C10_EndedEvent ==
    [][Update =>
        \A p \in DOMAIN player :
            LET ticks == {i \in DOMAIN trace' : trace'[i].op = "tick" /\ trace'[i].player = p}
                events == {i \in DOMAIN ended' : ended'[i].tween_player = p}
                sends == {i \in DOMAIN trace' : trace'[i].op = "send" /\ trace'[i].player = p}
                resolves == {i \in DOMAIN trace' :
                                trace'[i].op = "resolve" /\ trace'[i].player = p}
            IN  \A t \in ticks :
                    IF trace'[t].result \in {"Repeated", "AllDone"}
                    THEN /\ Cardinality(events) = 1
                         /\ \A i \in events :
                               /\ ended'[i].tween_player = p
                               /\ ended'[i].current_direction = player'[p].direction
                               /\ ended'[i].with_repeat = player'[p].repeat
                               /\ player'[p].elasped.repeat_style = Some(PingPong)
                                      => ended'[i].current_direction # player[p].direction
                         /\ Cardinality(sends) = 1
                         /\ \A i \in sends : t < i /\ \A r \in resolves : i < r
                    ELSE /\ trace'[t].result = "Continue"
                         /\ events = {}
                         /\ sends = {}]_vars

\* p1 repeated with PingPong: its event carries the flipped direction and the
\* advanced repeat counter; p2 continued and has no event.
C10_Witness ==
    /\ \E i \in DOMAIN trace :
          trace[i] = Op("tick", "p1", "p1", "Repeated")
    /\ \E i \in DOMAIN trace :
          trace[i] = Op("tick", "p2", "p2", "Continue")
    /\ resolved("c1")
    /\ Len(ended) = 1
    /\ ended[1].tween_player = "p1"
    /\ ended[1].current_direction = Backward
    /\ ended[1].with_repeat # None
    /\ ended[1].with_repeat[1].times_repeated = 1

\* The resolve operations of player p on entity e in the run that ends in the
\* next state.
writes(p, e) ==
    {i \in DOMAIN trace' :
        trace'[i].op = "resolve" /\ trace'[i].player = p /\ trace'[i].entity = e}

\* C11: in a system run an active player P writes the progress state of an
\* entity E exactly when E carries a TweenTimeSpan and a TweenState and is P
\* itself or a direct child of P that is not a player; it writes it once;
\* an entity no active player owns keeps its state, no state is created for
\* an entity without one, and the run does not panic.
C11_WritesOwnSpans ==
    [][Update =>
        /\ \A p \in DOMAIN player :
              ticked(p)' =>
                  \A e \in Entity :
                      IF e \in Owned(p)
                      THEN /\ Cardinality(writes(p, e)) = 1
                           /\ tween_state'[e].local_previous_elasped
                                  = tween_state[e].local_elasped
                      ELSE writes(p, e) = {}
        /\ \A e \in DOMAIN tween_state :
              (\A p \in DOMAIN player : ticked(p)' => e \notin Owned(p))
                  => tween_state'[e] = tween_state[e]
        /\ DOMAIN tween_state' = DOMAIN tween_state
        /\ ~panicked']_vars

\* p1 ran and wrote itself and c1 while p2 was paused: p2, the grandchild g1
\* and c3, which has no span, were not written; c2 has no state.
C11_Witness ==
    /\ ticked("p1")
    /\ ~ticked("p2")
    /\ player["p2"].paused
    /\ resolved("p1")
    /\ resolved("c1")
    /\ ~resolved("p2")
    /\ ~resolved("g1")
    /\ ~resolved("c3")
    /\ tween_state["p2"].local_elasped # None
    /\ "c2" \notin DOMAIN tween_state
    /\ "c3" \notin DOMAIN tween_span

\* C12: TweenTimeSpan::new(min, max) returns Ok exactly when min's duration
\* is at most max's and the bounds are not both Exclusive with equal
\* durations; it returns NotTime exactly in the both-Exclusive-and-equal
\* case and MinGreaterThanMax exactly when min's duration exceeds max's; an
\* Ok span gives back min and max unchanged.
C12_NewValidates ==
    call.fn = "new" =>
        LET min == call.args[1]
            max == call.args[2]
            r == call.ret
            both == /\ min.tag = "Exclusive"
                    /\ max.tag = "Exclusive"
                    /\ duration(min) = duration(max)
        IN  /\ r.ok <=> (duration(min) <= duration(max) /\ ~both)
            /\ (~r.ok /\ r.err = "NotTime") <=> both
            /\ (~r.ok /\ r.err = "MinGreaterThanMax") <=> duration(min) > duration(max)
            /\ r.ok => span_min(r.span) = min /\ span_max(r.span) = max

\* new was called on two exclusive bounds of equal duration and refused them.
C12_Witness ==
    /\ call.fn = "new"
    /\ call.args = <<Exclusive(2), Exclusive(2)>>
    /\ ~call.ret.ok
    /\ call.ret.err = "NotTime"

\* C13: for every span the constructors accept and every instant, quotient
\* returns Before, Inside or After and never reaches unreachable!().
C13_QuotientTotal ==
    call.fn = "quotient" =>
        /\ call.ret \in {Before, Inside, After}
        /\ call.ret # Unreachable
        /\ ~panicked

\* The quotient of a built span that contains no instant, at its bound.
C13_Witness ==
    /\ call.fn = "quotient"
    /\ call.args = <<new_unchecked(Exclusive(1), Inclusive(1)), 1>>
    /\ call.ret = Before
    /\ \E e \in DOMAIN tween_span : tween_span[e] = call.args[1]

\* The instant d passes the minimum test of the span.
MinTest(span, d) ==
    \/ span_min(span).tag = "Inclusive" /\ d >= duration(span_min(span))
    \/ span_min(span).tag = "Exclusive" /\ d > duration(span_min(span))

\* The instant d passes the maximum test of the span.
MaxTest(span, d) ==
    \/ span_max(span).tag = "Inclusive" /\ d <= duration(span_max(span))
    \/ span_max(span).tag = "Exclusive" /\ d < duration(span_max(span))

\* C14: quotient returns Inside exactly when the instant passes the minimum
\* test (>= an Inclusive min, > an Exclusive min) and the maximum test (<= an
\* Inclusive max, < an Exclusive max), Before exactly when it fails the
\* minimum test and After exactly when it fails the maximum test; the kind
\* of one bound does not affect the test of the other.
C14_QuotientSemantics ==
    call.fn = "quotient" =>
        LET span == call.args[1]
            d == call.args[2]
        IN  /\ call.ret = Inside <=> MinTest(span, d) /\ MaxTest(span, d)
            /\ call.ret = Before <=> ~MinTest(span, d)
            /\ call.ret = After <=> ~MaxTest(span, d)

\* An instant equal to an Exclusive min is Before although an Inclusive max
\* lies after it.
C14_Witness ==
    /\ call.fn = "quotient"
    /\ call.args = <<new_unchecked(Exclusive(1), Inclusive(2)), 1>>
    /\ call.ret = Before
    /\ ~panicked

\* The range starts after it ends.
Reversed(arg) == arg.shape \in {"Range", "RangeInclusive"} /\ arg.v[1] > arg.v[2]

\* C15 as stated: no range conversion fails and no builder call with a range
\* argument panics.
C15_NeverFails ==
    call.fn \in {"tween", "jump", "jump_and"} => call.ret.ok /\ ~panicked

\* C15, amended: a range conversion fails exactly for a..b and a..=b with
\* a > b, and then with MinGreaterThanMax, never NotTime; ..b and ..=b never
\* fail; the builder's tween panics on a range argument exactly when the
\* range starts after it ends, and jump never panics.
C15_FailsOnlyReversed ==
    /\ call.fn = "tween" /\ call.args[1].shape # "TweenTimeSpan" =>
          /\ call.ret.ok <=> ~Reversed(call.args[1])
          /\ ~call.ret.ok => call.ret.err = "MinGreaterThanMax"
          /\ panicked <=> Reversed(call.args[1])
    /\ call.fn \in {"jump", "jump_and"} => call.ret.ok /\ ~panicked

\* tween was called with the range 2..1 and panicked before spawning.
C15_Witness ==
    /\ call.fn = "tween"
    /\ call.args = <<Range(2, 1)>>
    /\ ~call.ret.ok
    /\ panicked
    /\ DOMAIN tween_span = {}

\* C16: a conversion that yields a span yields min = Inclusive(a) and
\* max = Exclusive(b) for a..b, Inclusive(a) and Inclusive(b) for a..=b,
\* Inclusive(0) and Exclusive(b) for ..b, Inclusive(0) and Inclusive(b) for
\* ..=b; the default span has min = Inclusive(0) and max = Exclusive(0).
C16_RangeBounds ==
    /\ call.fn = "try_from" /\ call.ret.ok =>
          LET arg == call.args[1]
              span == call.ret.span
          IN  CASE arg.shape = "Range" ->
                      /\ span_min(span) = Inclusive(arg.v[1])
                      /\ span_max(span) = Exclusive(arg.v[2])
                [] arg.shape = "RangeInclusive" ->
                      /\ span_min(span) = Inclusive(arg.v[1])
                      /\ span_max(span) = Inclusive(arg.v[2])
                [] arg.shape = "RangeTo" ->
                      /\ span_min(span) = Inclusive(0)
                      /\ span_max(span) = Exclusive(arg.v[1])
                [] arg.shape = "RangeToInclusive" ->
                      /\ span_min(span) = Inclusive(0)
                      /\ span_max(span) = Inclusive(arg.v[1])
    /\ call.fn = "default" =>
          /\ span_min(call.ret) = Inclusive(0)
          /\ span_max(call.ret) = Exclusive(0)

\* The conversion of ..=2 returned the span from 0 to 2, both included.
C16_Witness ==
    /\ call.fn = "try_from"
    /\ call.args = <<RangeToInclusive(2)>>
    /\ call.ret.ok
    /\ call.ret.span = new_unchecked(Inclusive(0), Inclusive(2))

\* The world with the timer of player q rewound and its pause flipped.
Disturbed(q) ==
    [World EXCEPT !.player[q] = [@ EXCEPT !.paused = ~@,
                                          !.elasped = [@ EXCEPT !.now = 0, !.previous = 0]]]

\* C17: from every state and for every frame delta, the timers and span
\* states at the end of the system run are the same for every order in which
\* the players are processed; no span's state is written by more than one
\* player in the run; processing one player leaves every other player's
\* timer and spans unchanged and does not depend on another player's timer.
C17_OrderIndependent ==
    \A delta \in 0..MaxDelta :
        /\ \A o1, o2 \in Orders(DOMAIN player) :
              LET w1 == iter_players(World, o1, delta)
                  w2 == iter_players(World, o2, delta)
              IN  /\ w1.player = w2.player
                  /\ w1.tween_state = w2.tween_state
                  /\ w1.panicked = w2.panicked
                  /\ \A i, j \in DOMAIN w1.trace :
                        /\ w1.trace[i].op = "resolve"
                        /\ w1.trace[j].op = "resolve"
                        /\ w1.trace[i].entity = w1.trace[j].entity
                        => i = j
        /\ \A p \in DOMAIN player :
              LET w == for_each_player(World, p, delta)
              IN  /\ \A q \in DOMAIN player \ {p} :
                        /\ w.player[q] = player[q]
                        /\ \A e \in Owned(q) : w.tween_state[e] = tween_state[e]
                        /\ for_each_player(Disturbed(q), p, delta).player[p] = w.player[p]
                        /\ \A e \in Owned(p) :
                              for_each_player(Disturbed(q), p, delta).tween_state[e]
                                  = w.tween_state[e]

\* The last run processed p2 before p1, both ticked and resolved their
\* spans, and both are still active for the next run.
C17_Witness ==
    /\ trace # << >>
    /\ trace[1].op = "tick"
    /\ trace[1].player = "p2"
    /\ ticked("p1")
    /\ resolved("c1")
    /\ resolved("g1")
    /\ \A p \in DOMAIN player : ~player[p].paused /\ ~is_all_done(player[p])
    /\ tween_state["g1"].local_elasped # tween_state["c1"].local_elasped

\* C18: in a system run with frame delta `delta` every active player's timer
\* is ticked exactly once, by delta times its speed scale, before any of its
\* spans is resolved; the timer at the end of the run is the timer right
\* after that tick; every span the player owns is resolved against that one
\* timer: its sample, and its direction after the tick.
C18_TickOnceThenResolve ==
    [][Update =>
        \E delta \in 0..MaxDelta :
            \A p \in DOMAIN player :
                LET ticks == {i \in DOMAIN trace' :
                                 trace'[i].op = "tick" /\ trace'[i].player = p}
                    resolves == {i \in DOMAIN trace' :
                                    trace'[i].op = "resolve" /\ trace'[i].player = p}
                    t == tick(player[p], delta * player[p].speed_scale, player[p].direction)
                IN  IF player[p].paused \/ is_all_done(player[p])
                    THEN ticks = {} /\ resolves = {}
                    ELSE /\ Cardinality(ticks) = 1
                         /\ \A i \in ticks : \A r \in resolves : i < r
                         /\ player'[p] = t.timer
                         /\ Cardinality(resolves) = Cardinality(Owned(p))
                         /\ \A e \in Owned(p) :
                               /\ tween_state'[e].local_elasped
                                      = resolution(t.timer, tween_span[e])
                               /\ tween_state'[e].direction = t.timer.direction]_vars

\* p1 was ticked once, then its own span and its child's were resolved, both
\* from the same sample, which lies in both spans.
C18_Witness ==
    /\ Len(SelectSeq(trace, LAMBDA o : o.op = "tick" /\ o.player = "p1")) = 1
    /\ SelectSeq(trace, LAMBDA o : o.player = "p1" /\ o.op # "send")
           = <<Op("tick", "p1", "p1", "Continue"),
               Op("resolve", "p1", "p1", ""),
               Op("resolve", "p1", "c1", "")>>
    /\ player["p1"].elasped.now = 2
    /\ tween_state["p1"].local_elasped = Some(2)
    /\ tween_state["c1"].local_elasped = Some(1)
    /\ tween_state["p1"].direction = tween_state["c1"].direction

\* C19: SpanTweenPlayerEnded::is_all_done() is true exactly when the event's
\* with_repeat is None or the repeat it carries is exhausted.
C19_EventAllDone ==
    call.fn = "is_all_done" =>
        LET event == call.args[1]
        IN  call.ret = TRUE
                <=> \/ event.with_repeat = None
                    \/ \E repeat \in Repeats :
                          /\ event.with_repeat = Some(repeat)
                          /\ exhausted(repeat)

\* An event carrying a repeat with one repetition left is not all done.
C19_Witness ==
    /\ call.fn = "is_all_done"
    /\ call.args[1].with_repeat = Some([Times(1) EXCEPT !.times_repeated = 0])
    /\ call.ret = FALSE

\* C20: jump(t) and jump_and(t) always succeed and spawn a span with
\* min = Inclusive(t) and max = Inclusive(t); t is the only instant the span
\* classifies as Inside; its local_end is 0 and every value the resolver
\* reports for it is 0.
C20_Jump ==
    /\ ~panicked
    /\ call.fn \in {"jump", "jump_and"} =>
          /\ call.ret.ok
          /\ \E e \in DOMAIN tween_span :
                /\ span_min(tween_span[e]) = Inclusive(call.args[1])
                /\ span_max(tween_span[e]) = Inclusive(call.args[1])
                /\ e \in DOMAIN tween_state
    /\ \A e \in DOMAIN tween_span :
          \E t \in 0..MaxTime :
              /\ tween_span[e] = new_unchecked(Inclusive(t), Inclusive(t))
              /\ \A d \in 0..(MaxTime + 1) :
                    quotient(tween_span[e], d) = Inside <=> d = t
              /\ tween_state[e].local_end = 0
              /\ tween_state[e].local_elasped \in {None, Some(0)}
              /\ tween_state[e].local_previous_elasped \in {None, Some(0)}

\* A jump at 2 under a forward timer that stepped over that instant: the
\* tick went from before the jump to after it and resolved to 0.
C20_Witness ==
    /\ call.fn = "jump"
    /\ call.args = <<2>>
    /\ tween_span["c1"] = new_unchecked(Inclusive(2), Inclusive(2))
    /\ resolved("c1")
    /\ player["p1"].elasped.previous < 2
    /\ player["p1"].elasped.now > 2
    /\ tween_state["c1"].local_elasped = Some(0)
    /\ tween_state["c1"].local_end = 0

\* The value the playing span holds, and the value of its end.
playing_value == tween_state["p1"].local_elasped

terminal_value == Some(tween_max(tween_span["p1"]))

\* C21 as stated: in forward playback without repeat from 0 to the timer's
\* duration every span gets Some value on some tick and the last Some value
\* it gets is tween_max.
C21_AlwaysTerminal ==
    <>(playing_value = terminal_value /\ [](playing_value \in {None, terminal_value}))

\* The span holds no instant and sits where the playback starts, already
\* passed at elapsed 0 (the default span), or where it ends, never reached.
NeverEntered(span, dur) ==
    \/ span = new_unchecked(Inclusive(0), Exclusive(0))
    \/ span = new_unchecked(Exclusive(dur), Inclusive(dur))

\* C21, amended: in forward playback without repeat from 0 to the timer's
\* duration D, every span with max.duration() <= D other than
\* (Inclusive(0), Exclusive(0)) and (Exclusive(D), Inclusive(D)) gets Some
\* value on some tick and the last Some value it gets is tween_max, also
\* when one tick steps over the whole span; those two spans never get Some.
C21_TerminalUnlessNeverEntered ==
    /\ NeverEntered(tween_span["p1"], player["p1"].duration) => [](playing_value = None)
    /\ ~NeverEntered(tween_span["p1"], player["p1"].duration) =>
          <>(playing_value = terminal_value
                /\ [](playing_value \in {None, terminal_value}))

\* One tick went from before the span 1..=2 to after it and resolved to its
\* end.
C21_Witness ==
    /\ tween_span["p1"] = new_unchecked(Inclusive(1), Inclusive(2))
    /\ player["p1"].elasped.previous = 0
    /\ player["p1"].elasped.now = 3
    /\ resolved("p1")
    /\ playing_value = Some(1)
    /\ is_all_done(player["p1"])

\* The tick that resolved e wrapped around in `direction`.
wrapped_in(e, direction) ==
    /\ sample_of(e).repeat_style = Some(WrapAround)
    /\ tween_state[e].direction = direction

\* C22: the system never panics on max.duration() - min.duration(); every
\* state it writes has local_end = max.duration() - min.duration() >= 0 and,
\* when local_elasped is Some(v), 0 <= v <= local_end; v is local_end when
\* the tick's now is After the span and 0 when it is Before, except that a
\* Forward WrapAround tick with now Before gives local_end and a Backward
\* WrapAround tick with now After gives 0.
C22_ValueInBounds ==
    /\ ~panicked
    /\ \A e \in DOMAIN tween_state :
          resolved(e) =>
              LET local_end == tween_state[e].local_end
                  now == elasped_quotient_of(e)
              IN  /\ duration(tween_span[e].max) >= duration(tween_span[e].min)
                  /\ local_end = duration(tween_span[e].max) - duration(tween_span[e].min)
                  /\ tween_state[e].local_elasped # None =>
                        LET v == tween_state[e].local_elasped[1]
                        IN  /\ 0 <= v
                            /\ v <= local_end
                            /\ CASE wrapped_in(e, Forward) /\ now = Before -> v = local_end
                                  [] wrapped_in(e, Backward) /\ now = After -> v = 0
                                  [] OTHER -> /\ now = After => v = local_end
                                              /\ now = Before => v = 0

\* A forward tick wrapped from inside the span to before it and the span was
\* given its end, which is not 0.
C22_Witness ==
    /\ resolved("p1")
    /\ wrapped_in("p1", Forward)
    /\ previous_quotient_of("p1") = Inside
    /\ elasped_quotient_of("p1") = Before
    /\ tween_state["p1"].local_end = 2
    /\ tween_state["p1"].local_elasped = Some(2)
    /\ ~panicked

\* The WrapAround transitions in which the wrap carried the sample from the
\* side of the span already passed to the side not yet reached.
C23_Excluded == {<<Forward, After, Before>>, <<Backward, Before, After>>}

\* C23: on a tick whose repeat_style is WrapAround the resolver yields None,
\* and the span's stored local_elasped becomes None, exactly for Forward
\* After -> Before and Backward Before -> After; each of the other eight
\* (previous, now) pairs of either direction yields Some.
C23_WrapAroundNone ==
    \A e \in DOMAIN tween_state :
        resolved(e) /\ sample_of(e).repeat_style = Some(WrapAround)
            => (tween_state[e].local_elasped = None <=> transition_of(e) \in C23_Excluded)

\* A forward tick wrapped from after the span to before it: the value the
\* span held moved to local_previous_elasped and local_elasped is None.
C23_Witness ==
    /\ resolved("p1")
    /\ sample_of("p1").repeat_style = Some(WrapAround)
    /\ transition_of("p1") = <<Forward, After, Before>>
    /\ tween_state["p1"].local_elasped = None
    /\ tween_state["p1"].local_previous_elasped = Some(0)
    /\ tween_state["p1"].local_end > 0

=============================================================================
